---- MODULE Spec2Model ----
(***************************************************************************)
(* Model of kube.py, the Kubernetes external inventory script for Ansible. *)
(*                                                                         *)
(* One run of the script is one K8sInventory() object: __init__ decides    *)
(* whether the cache is rebuilt, then prints the inventory or one host's   *)
(* variables.  The two cache files outlive the runs.                       *)
(*                                                                         *)
(* Python values are modelled as follows: a dict is a function, a list is  *)
(* a sequence, None is the string "None".  A JSON text is modelled by the  *)
(* value it decodes to: json.dumps turns a None key into the key "null",   *)
(* so dumping and loading a dict is not the identity on its keys.          *)
(***************************************************************************)
EXTENDS Integers, Sequences, FiniteSets, TLC

VARIABLES
    use_public_ip,     \* kube.ini: use_public_ip
    use_private_ip,    \* kube.ini: use_private_ip
    cache_file,        \* ansible-kube.cache: [exists, text]
    cache_mtime,       \* modification time of ansible-kube.cache
    index_file,        \* ansible-kube.index: [exists, text]
    now,               \* the clock read by time()
    pc,                \* position of the current run
    args,              \* self.args: [host, refresh_cache]
    inventory,         \* self.inventory
    index,             \* self.index
    node_labels,       \* self.node_labels (its keys)
    output,            \* data_to_print, as printed
    valid,             \* what is_cache_valid returned in this run
    missed,            \* get_host_info took the branch of line 232
    listCalls,         \* calls of "kubectl get nodes" in this run
    nodeCalls,         \* calls of "kubectl get node <id>" in this run
    writes,            \* completed write_to_cache calls in this run
    rebuilds,          \* completed rebuilds (get_nodes calls) of this object
    lastList,          \* the node list the latest get_nodes folded
    firstList,         \* the node list the first get_nodes folded
    firstInventory,    \* self.inventory after the first get_nodes
    firstIndex,        \* self.index after the first get_nodes
    fetched,           \* the calls of get_node that returned: [id, node]
    torn,              \* this run has read a file that was open for writing
    paired,            \* both cache files were last written by one rebuild
    peer               \* a second run of the script: [pc, nodes]

vars == <<use_public_ip, use_private_ip, cache_file, cache_mtime, index_file,
          now, pc, args, inventory, index, node_labels, output, valid, missed,
          listCalls, nodeCalls, writes, rebuilds, lastList, firstList,
          firstInventory, firstIndex, fetched, torn, paired, peer>>

config == <<use_public_ip, use_private_ip>>
files == <<cache_file, cache_mtime, index_file, paired>>
object == <<inventory, index, node_labels>>
history == <<rebuilds, lastList, firstList, firstInventory, firstIndex>>
observed == <<fetched, torn>>

----------------------------------------------------------------------------
(* Bounds *)

MaxNodes == 2      \* longest node list a list query returns
MaxTime == 3       \* the clock runs from 0 to MaxTime
MaxBuilds == 2     \* get_nodes calls on one object in SpecBuild

----------------------------------------------------------------------------
(* Python values *)

None == "None"

EmptyDict == [k \in {} |-> k]

Put(d, k, v) == [y \in DOMAIN d \cup {k} |-> IF y = k THEN v ELSE d[y]]

----------------------------------------------------------------------------
(* Node records, as "kubectl get nodes -ojson" returns them *)

Addr(t, a) == [type |-> t, address |-> a]

Node(name, labels, addresses, spec) ==
    [metadata |-> [name |-> name, labels |-> labels,
                   annotations |-> EmptyDict],
     status |-> [addresses |-> addresses,
                 allocatable |-> [cpu |-> "2"],
                 capacity |-> [cpu |-> "2"]],
     spec |-> spec]

NodeA == Node("node-a", [role |-> "worker"],
              <<Addr("InternalIP", "10.0.0.1"), Addr("ExternalIP", "1.2.3.4"),
                Addr("ExternalIP", "1.2.3.5")>>,
              [podCIDR |-> "10.1.0.0/24"])

NodeB == Node("node-b", [role |-> "master"],
              <<Addr("InternalIP", "10.0.0.2")>>,
              EmptyDict)

NodeC == Node("node-c", EmptyDict,
              <<Addr("ExternalIP", "1.2.3.4")>>,
              EmptyDict)

NodeD == Node("node-d", [role |-> "all", zone |-> "_meta"],
              <<Addr("InternalIP", "10.0.0.1")>>,
              [taints |-> <<"NoSchedule">>])

\* the nodes of the cluster the script runs against
ClusterNodes == {NodeA, NodeB}

\* node-a after "kubectl label node node-a role=master --overwrite"
NodeA2 == Node("node-a", [role |-> "master"],
               <<Addr("InternalIP", "10.0.0.1"), Addr("ExternalIP", "1.2.3.4"),
                 Addr("ExternalIP", "1.2.3.5")>>,
               [podCIDR |-> "10.1.0.0/24"])

\* what "kubectl get node <id>" may return: the record may have changed since
\* the list query
LiveNodes == ClusterNodes \cup {NodeA2}

\* the nodes the builder is folded over in SpecBuild
Nodes == {NodeA, NodeB, NodeC, NodeD}

\* a list query returns every node at most once (node names are unique)
ListsOf(S) ==
    UNION {{l \in [1..k -> S] : \A i, j \in 1..k : l[i] = l[j] => i = j}
           : k \in 0..MaxNodes}

NodeLists == ListsOf(ClusterNodes)
BuildLists == ListsOf(Nodes)

----------------------------------------------------------------------------
(* Pure helpers of K8sInventory *)

_empty_inventory == [k \in {"_meta"} |-> [hostvars |-> EmptyDict]]

get_node_label(node, label) ==
    IF label \in DOMAIN node.metadata.labels
    THEN node.metadata.labels[label]
    ELSE ""

get_node_name(node) == node.metadata.name

\* FirstAddress without the return inside the loop: the last match wins
RECURSIVE FirstAddressLast(_, _)
FirstAddressLast(addresses, type) ==
    IF addresses = << >> THEN None
    ELSE LET rest == FirstAddressLast(Tail(addresses), type)
         IN IF rest # None THEN rest
            ELSE IF Head(addresses).type = type THEN Head(addresses).address
            ELSE None

RECURSIVE FirstAddress(_, _)
FirstAddress(addresses, type) ==
    IF addresses = << >> THEN None
    ELSE IF Head(addresses).type = type THEN Head(addresses).address
    ELSE FirstAddress(Tail(addresses), type)

get_node_public_ip(node) == FirstAddress(node.status.addresses, "ExternalIP")

get_node_private_ip(node) == FirstAddress(node.status.addresses, "InternalIP")

\* line 275 tests use_public_ip a second time, so its branch is never taken
SshIp(public_ip, private_ip) ==
    LET chosen == IF use_public_ip THEN public_ip ELSE ""
    IN IF chosen = "" THEN private_ip ELSE chosen

SparseKeys == {"taints", "podCIDR", "providerID", "externalID"}

_get_host_info(node) ==
    LET public_ip == get_node_public_ip(node)
        private_ip == get_node_private_ip(node)
        ssh_ip == SshIp(public_ip, private_ip)
        fixed == [annotations |-> node.metadata.annotations,
                  labels |-> node.metadata.labels,
                  addresses |-> node.status.addresses,
                  allocatable |-> node.status.allocatable,
                  capacity |-> node.status.capacity,
                  public_ip |-> public_ip,
                  private_ip |-> private_ip,
                  ansible_ssh_host |-> ssh_ip,
                  ansible_host |-> ssh_ip]
        sparse == DOMAIN node.spec \cap SparseKeys
    IN [k \in DOMAIN fixed \cup sparse |->
            IF k \in sparse THEN node.spec[k] ELSE fixed[k]]

\* my_dict[key].append raises unless my_dict[key] is a list; the one entry of
\* the inventory that is not a list is the dict under "_meta"
push_raises(my_dict, key) == key \in DOMAIN my_dict /\ key = "_meta"

push(my_dict, key, element) ==
    IF key \in DOMAIN my_dict
    THEN [my_dict EXCEPT ![key] = Append(@, element)]
    ELSE Put(my_dict, key, <<element>>)

\* the Host Identifier add_node files a node under
Dest(node) ==
    IF use_public_ip THEN get_node_public_ip(node)
    ELSE IF use_private_ip THEN get_node_private_ip(node)
    ELSE get_node_name(node)

\* lines 204-205: one push per key of self.node_labels; every push appends
\* the same element, so the order of the keys does not show in the result
RECURSIVE PushLabels(_, _, _, _)
PushLabels(inv, node, dest, labels) ==
    IF labels = {} THEN [inventory |-> inv, ok |-> TRUE]
    ELSE LET label == CHOOSE l \in labels : TRUE
             key == get_node_label(node, label)
         IN IF push_raises(inv, key)
            THEN [inventory |-> inv, ok |-> FALSE]
            ELSE PushLabels(push(inv, key, dest), node, dest,
                            labels \ {label})

\* add_node that keeps the entries of a dest it has already filed
add_node_keep_first(self, node) ==
    LET dest == Dest(node)
        idx == IF dest \in DOMAIN self.index THEN self.index
               ELSE Put(self.index, dest, get_node_name(node))
        all == push(self.inventory, "all", dest)
        grouped == PushLabels(all, node, dest, self.node_labels)
    IN IF grouped.ok
       THEN [self EXCEPT
                !.index = idx,
                !.inventory =
                    [grouped.inventory EXCEPT
                        !["_meta"].hostvars =
                            IF dest \in DOMAIN @ THEN @
                            ELSE Put(@, dest, _get_host_info(node))]]
       ELSE [self EXCEPT !.index = idx, !.inventory = grouped.inventory,
                         !.ok = FALSE]

\* add_node with hostvars filed under the node's name instead of dest
add_node_by_name(self, node) ==
    LET dest == Dest(node)
        idx == Put(self.index, dest, get_node_name(node))
        all == push(self.inventory, "all", dest)
        grouped == PushLabels(all, node, dest, self.node_labels)
    IN IF grouped.ok
       THEN [self EXCEPT
                !.index = idx,
                !.inventory =
                    [grouped.inventory EXCEPT
                        !["_meta"].hostvars =
                            Put(@, get_node_name(node),
                                _get_host_info(node))]]
       ELSE [self EXCEPT !.index = idx, !.inventory = grouped.inventory,
                         !.ok = FALSE]

\* self is [inventory, index, node_labels, ok]; ok = FALSE once a push raised
add_node(self, node) ==
    LET dest == Dest(node)
        idx == Put(self.index, dest, get_node_name(node))
        all == push(self.inventory, "all", dest)
        grouped == PushLabels(all, node, dest, self.node_labels)
    IN IF grouped.ok
       THEN [self EXCEPT
                !.index = idx,
                !.inventory =
                    [grouped.inventory EXCEPT
                        !["_meta"].hostvars =
                            Put(@, dest, _get_host_info(node))]]
       ELSE [self EXCEPT !.index = idx, !.inventory = grouped.inventory,
                         !.ok = FALSE]

\* lines 164-167, after the list query returned nodes
RECURSIVE get_nodes(_, _)
get_nodes(self, nodes) ==
    IF nodes = << >> THEN self
    ELSE LET added == add_node(self, Head(nodes))
         IN IF ~added.ok THEN added
            ELSE get_nodes(
                    [added EXCEPT !.node_labels =
                        @ \cup DOMAIN Head(nodes).metadata.labels],
                    Tail(nodes))

Self == [inventory |-> inventory, index |-> index,
         node_labels |-> node_labels, ok |-> TRUE]

\* the object as line 84-92 leave it
FreshSelf == [inventory |-> _empty_inventory, index |-> EmptyDict,
              node_labels |-> {}, ok |-> TRUE]

----------------------------------------------------------------------------
(* JSON *)

\* json.dumps writes the key None as "null"; string keys are kept
JsonKey(k) == IF k = None THEN "null" ELSE k

StringifyKeys(d) ==
    [k \in {JsonKey(x) : x \in DOMAIN d} |->
        d[CHOOSE x \in DOMAIN d : JsonKey(x) = k]]

\* json_format_dict of a dict of strings (the index, a host bundle, {})
json_format_dict(data) == StringifyKeys(data)

\* json_format_dict of the inventory: the keys of hostvars may be None
json_format_inventory(inv) ==
    [inv EXCEPT !["_meta"] = [hostvars |-> StringifyKeys(@.hostvars)]]

\* json.loads of a text written by json_format_dict
json_loads(text) == text

----------------------------------------------------------------------------
(* Cache files *)

cache_max_age == 2

\* partial: the file is open for writing (line 308) and nothing is written yet
NoFile == [exists |-> FALSE, text |-> EmptyDict, partial |-> FALSE]

File(text) == [exists |-> TRUE, text |-> text, partial |-> FALSE]

Truncated == [exists |-> TRUE, text |-> EmptyDict, partial |-> TRUE]

NoPeer == [pc |-> "off", nodes |-> << >>]

\* is_cache_valid with >= in place of > on line 121
is_cache_valid_inclusive ==
    IF cache_file.exists
    THEN IF cache_mtime + cache_max_age >= now
         THEN index_file.exists
         ELSE FALSE
    ELSE FALSE

is_cache_valid ==
    IF cache_file.exists
    THEN IF cache_mtime + cache_max_age > now
         THEN index_file.exists
         ELSE FALSE
    ELSE FALSE

----------------------------------------------------------------------------
(* One run of the script: K8sInventory.__init__ *)

\* idle: no run yet; done: printed; exited: sys.exit of line 169; aborted and
\* crashed: an exception nothing catches (IOError, NameError; a push)
EndStates == {"idle", "done", "aborted", "exited", "crashed"}

\* --host values tried: none, a host no node resolves to, node-a's identifier
HostArgs == {None, "h2", Dest(NodeA)}

Init ==
    /\ use_public_ip \in BOOLEAN
    /\ use_private_ip \in BOOLEAN
    /\ cache_file = NoFile
    /\ cache_mtime = 0
    /\ index_file = NoFile
    /\ now = 0
    /\ pc = "idle"
    /\ args = [host |-> None, refresh_cache |-> FALSE]
    /\ inventory = _empty_inventory
    /\ index = EmptyDict
    /\ node_labels = {}
    /\ output = EmptyDict
    /\ valid = FALSE
    /\ missed = FALSE
    /\ listCalls = 0
    /\ nodeCalls = 0
    /\ writes = 0
    /\ rebuilds = 0
    /\ lastList = << >>
    /\ firstList = << >>
    /\ firstInventory = _empty_inventory
    /\ firstIndex = EmptyDict
    /\ fetched = << >>
    /\ torn = FALSE
    /\ paired = TRUE
    /\ peer = NoPeer

\* lines 84-96: a new object, settings read, arguments parsed
Invoke(host, refresh) ==
    /\ pc \in EndStates
    /\ pc' = "cache"
    /\ args' = [host |-> host, refresh_cache |-> refresh]
    /\ inventory' = _empty_inventory
    /\ index' = EmptyDict
    /\ node_labels' = {}
    /\ output' = EmptyDict
    /\ valid' = FALSE
    /\ missed' = FALSE
    /\ listCalls' = 0
    /\ nodeCalls' = 0
    /\ writes' = 0
    /\ rebuilds' = 0
    /\ lastList' = << >>
    /\ firstList' = << >>
    /\ firstInventory' = _empty_inventory
    /\ firstIndex' = EmptyDict
    /\ fetched' = << >>
    /\ torn' = FALSE
    /\ UNCHANGED <<config, peer, files, now>>

\* CacheCheck without the elif of lines 101-102: a stale cache is served
CacheCheckServesStale ==
    /\ pc = "cache"
    /\ valid' = (~args.refresh_cache /\ is_cache_valid)
    /\ pc' = IF args.refresh_cache THEN "rebuild" ELSE "serve"
    /\ UNCHANGED <<config, peer, observed, files, now, args, object, output,
                   missed, listCalls, nodeCalls, writes, history>>

\* lines 99-102: is_cache_valid is called only without --refresh-cache
CacheCheck ==
    /\ pc = "cache"
    /\ valid' = (~args.refresh_cache /\ is_cache_valid)
    /\ pc' = IF args.refresh_cache \/ ~is_cache_valid
             THEN "rebuild" ELSE "serve"
    /\ UNCHANGED <<config, peer, observed, files, now, args, object, output,
                   missed, listCalls, nodeCalls, writes, history>>

\* where a write_to_cache of do_api_calls_update_cache raises IOError
WriteOutcomes == {"written", "cache_raises", "index_raises"}

\* lines 150-154, called from line 100, 102 or 234; the list query returned
\* nodes, and open(filename, 'w') raises in the write named by io, if any
do_api_calls_update_cache(nodes, io) ==
    LET built == get_nodes(Self, nodes)
        completed == built.ok /\ io = "written"
    IN /\ pc \in {"rebuild", "miss"}
       /\ listCalls' = listCalls + 1
       /\ inventory' = built.inventory
       /\ index' = built.index
       /\ node_labels' = built.node_labels
       /\ lastList' = nodes
       /\ cache_file' = IF built.ok /\ io # "cache_raises"
                        THEN File(json_format_inventory(built.inventory))
                        ELSE cache_file
       /\ cache_mtime' = IF built.ok /\ io # "cache_raises"
                         THEN now ELSE cache_mtime
       /\ index_file' = IF completed
                        THEN File(json_format_dict(built.index))
                        ELSE index_file
       /\ paired' = IF completed THEN TRUE
                    ELSE IF built.ok /\ io = "index_raises" THEN FALSE
                    ELSE paired
       /\ writes' = IF ~built.ok \/ io = "cache_raises" THEN writes
                    ELSE IF io = "index_raises" THEN writes + 1
                    ELSE writes + 2
       /\ rebuilds' = IF completed THEN rebuilds + 1 ELSE rebuilds
       /\ firstList' = IF completed /\ rebuilds = 0 THEN nodes ELSE firstList
       /\ firstInventory' = IF completed /\ rebuilds = 0
                            THEN built.inventory ELSE firstInventory
       /\ firstIndex' = IF completed /\ rebuilds = 0
                        THEN built.index ELSE firstIndex
       /\ pc' = IF ~built.ok THEN "crashed"
                ELSE IF ~completed THEN "aborted"
                ELSE IF pc = "rebuild" THEN "serve" ELSE "retry"
       /\ UNCHANGED <<config, peer, observed, now, args, output, valid,
                      missed, nodeCalls>>

\* get_nodes_fails with the cache files written on the way out, as a write in
\* a finally clause would do
get_nodes_fails_writes ==
    /\ pc \in {"rebuild", "miss"}
    /\ listCalls' = listCalls + 1
    /\ pc' = "exited"
    /\ cache_file' = File(json_format_inventory(inventory))
    /\ index_file' = File(json_format_dict(index))
    /\ UNCHANGED <<config, peer, observed, cache_mtime, paired, now, args,
                   object, output, valid, missed, nodeCalls, writes, history>>

\* lines 168-169: kubectl exits non-zero, before any node is added
get_nodes_fails ==
    /\ pc \in {"rebuild", "miss"}
    /\ listCalls' = listCalls + 1
    /\ pc' = "exited"
    /\ UNCHANGED <<config, peer, observed, files, now, args, object, output,
                   valid, missed, nodeCalls, writes, history>>

\* lines 293-297; open raises when the file is missing; a file that is open
\* for writing reads as the empty text
get_inventory_from_cache == cache_file.text

\* PrintList without the test of line 109: self.inventory is always dumped
PrintListDumps ==
    /\ pc = "serve"
    /\ args.host = None
    /\ output' = json_format_inventory(inventory)
    /\ pc' = "done"
    /\ UNCHANGED <<config, peer, observed, files, now, args, object, valid,
                   missed, listCalls, nodeCalls, writes, history>>

\* lines 107-114: --list, the default
PrintList ==
    /\ pc = "serve"
    /\ args.host = None
    /\ IF Cardinality(DOMAIN inventory) = 1
       THEN IF cache_file.exists
            THEN /\ output' = get_inventory_from_cache
                 /\ torn' = (torn \/ cache_file.partial)
                 /\ pc' = "done"
            ELSE output' = output /\ torn' = torn /\ pc' = "aborted"
       ELSE /\ output' = json_format_inventory(inventory)
            /\ torn' = torn
            /\ pc' = "done"
    /\ UNCHANGED <<config, peer, fetched, files, now, args, object, valid,
                   missed, listCalls, nodeCalls, writes, history>>

\* lines 299-303; json.loads raises on the empty text of a file that is open
\* for writing
load_index_from_cache == json_loads(index_file.text)

\* lines 228-232 of get_host_info
HostLookup ==
    LET load == Cardinality(DOMAIN index) = 0
        current == IF load THEN load_index_from_cache ELSE index
    IN /\ pc = "serve"
       /\ args.host # None
       /\ torn' = (torn \/ (load /\ index_file.partial))
       /\ IF load /\ (~index_file.exists \/ index_file.partial)
          THEN pc' = "aborted" /\ UNCHANGED <<index, missed>>
          ELSE /\ index' = current
               /\ missed' = (args.host \notin DOMAIN current)
               /\ pc' = IF args.host \notin DOMAIN current
                        THEN "miss" ELSE "hit"
       /\ UNCHANGED <<config, peer, fetched, files, now, args, inventory,
                      node_labels, output, valid, listCalls, nodeCalls,
                      writes, history>>

\* HostRetry without the second test of membership (lines 235-237 left out)
HostRetryAlwaysHit ==
    /\ pc = "retry"
    /\ output' = output
    /\ pc' = "hit"
    /\ UNCHANGED <<config, peer, observed, files, now, args, object, valid,
                   missed, listCalls, nodeCalls, writes, history>>

\* HostRetry that rebuilds again for as long as the host is absent
HostRetryAgain ==
    /\ pc = "retry"
    /\ output' = output
    /\ pc' = IF args.host \notin DOMAIN index THEN "miss" ELSE "hit"
    /\ UNCHANGED <<config, peer, observed, files, now, args, object, valid,
                   missed, listCalls, nodeCalls, writes, history>>

\* lines 235-237 of get_host_info, after the rebuild of line 234
HostRetry ==
    /\ pc = "retry"
    /\ IF args.host \notin DOMAIN index
       THEN output' = json_format_dict(EmptyDict) /\ pc' = "done"
       ELSE output' = output /\ pc' = "hit"
    /\ UNCHANGED <<config, peer, observed, files, now, args, object, valid,
                   missed, listCalls, nodeCalls, writes, history>>

\* HostHit that answers with the record of the node as the list query gave
\* it, which is what hostvars of the cache hold, instead of the one fetched
HostHitCached(node) ==
    /\ pc = "hit"
    /\ get_node_name(node) = index[args.host]
    /\ nodeCalls' = nodeCalls + 1
    /\ fetched' = Append(fetched, [id |-> index[args.host], node |-> node])
    /\ output' = json_format_dict(_get_host_info(
                    CHOOSE listed \in ClusterNodes :
                        get_node_name(listed) = index[args.host]))
    /\ pc' = "done"
    /\ UNCHANGED <<config, peer, torn, files, now, args, object, valid,
                   missed, listCalls, writes, history>>

\* lines 239-242 of get_host_info; kubectl returned the node of that name
HostHit(node) ==
    /\ pc = "hit"
    /\ get_node_name(node) = index[args.host]
    /\ nodeCalls' = nodeCalls + 1
    /\ fetched' = Append(fetched, [id |-> index[args.host], node |-> node])
    /\ output' = json_format_dict(_get_host_info(node))
    /\ pc' = "done"
    /\ UNCHANGED <<config, peer, torn, files, now, args, object, valid,
                   missed, listCalls, writes, history>>

\* lines 177-178: kubectl get node exits non-zero
get_node_fails ==
    /\ pc = "hit"
    /\ nodeCalls' = nodeCalls + 1
    /\ pc' = "aborted"
    /\ UNCHANGED <<config, peer, observed, files, now, args, object, output,
                   valid, missed, listCalls, writes, history>>

\* time passes between runs; a run reads the clock once, in is_cache_valid
Tick ==
    /\ pc \in EndStates
    /\ now < MaxTime
    /\ now' = now + 1
    /\ UNCHANGED <<config, peer, observed, files, pc, args, object, output,
                   valid, missed, listCalls, nodeCalls, writes, history>>

Next ==
    \/ \E host \in HostArgs, refresh \in BOOLEAN : Invoke(host, refresh)
    \/ CacheCheck
    \/ \E nodes \in NodeLists, io \in WriteOutcomes :
            do_api_calls_update_cache(nodes, io)
    \/ get_nodes_fails
    \/ PrintList
    \/ HostLookup
    \/ HostRetry
    \/ \E node \in LiveNodes : HostHit(node)
    \/ get_node_fails
    \/ Tick

Spec == Init /\ [][Next]_vars

\* the steps of a run; the script is sequential and every call it makes
\* returns, so a run that can take a step takes one
RunStep ==
    \/ CacheCheck
    \/ \E nodes \in NodeLists, io \in WriteOutcomes :
            do_api_calls_update_cache(nodes, io)
    \/ get_nodes_fails
    \/ PrintList
    \/ HostLookup
    \/ HostRetry
    \/ \E node \in LiveNodes : HostHit(node)
    \/ get_node_fails

SpecLive == Init /\ [][Next]_vars /\ WF_vars(RunStep)

----------------------------------------------------------------------------
(* Runs against a cluster with a node whose label value is "_meta": the fold *)
(* of get_nodes can raise in the middle of a rebuild                         *)

FoldNodes == {NodeA, NodeD}

FoldLists == ListsOf(FoldNodes)

NextFold ==
    \/ \E host \in HostArgs, refresh \in BOOLEAN : Invoke(host, refresh)
    \/ CacheCheck
    \/ \E nodes \in FoldLists, io \in WriteOutcomes :
            do_api_calls_update_cache(nodes, io)
    \/ get_nodes_fails
    \/ PrintList
    \/ HostLookup
    \/ HostRetry
    \/ \E node \in FoldNodes : HostHit(node)
    \/ get_node_fails
    \/ Tick

SpecFold == Init /\ [][NextFold]_vars

----------------------------------------------------------------------------
(* Two runs of the script at once.  The second run, the peer, rebuilds the  *)
(* cache: do_api_calls_update_cache step by step, each write_to_cache as    *)
(* open(filename, 'w'), which empties the file, and write and close, which  *)
(* put the text there.  Two writers inside one file are not modelled: this  *)
(* run rebuilds only while the peer is not rebuilding.                      *)

run == <<pc, args, object, output, valid, missed, listCalls, nodeCalls,
         writes, history, observed>>

PeerBuilt == get_nodes(FreshSelf, peer.nodes)

\* line 152 in the peer: its list query returned nodes
PeerGetNodes(nodes) ==
    /\ peer.pc = "off"
    /\ get_nodes(FreshSelf, nodes).ok
    /\ peer' = [pc |-> "built", nodes |-> nodes]
    /\ UNCHANGED <<config, files, now, run>>

\* line 153 in the peer, up to line 308
PeerOpenCache ==
    /\ peer.pc = "built"
    /\ cache_file' = Truncated
    /\ cache_mtime' = now
    /\ paired' = FALSE
    /\ peer' = [peer EXCEPT !.pc = "cache_open"]
    /\ UNCHANGED <<config, index_file, now, run>>

\* line 153 in the peer, lines 309-310
PeerWriteCache ==
    /\ peer.pc = "cache_open"
    /\ cache_file' = File(json_format_inventory(PeerBuilt.inventory))
    /\ cache_mtime' = now
    /\ peer' = [peer EXCEPT !.pc = "cache_closed"]
    /\ UNCHANGED <<config, index_file, paired, now, run>>

\* line 154 in the peer, up to line 308
PeerOpenIndex ==
    /\ peer.pc = "cache_closed"
    /\ index_file' = Truncated
    /\ peer' = [peer EXCEPT !.pc = "index_open"]
    /\ UNCHANGED <<config, cache_file, cache_mtime, paired, now, run>>

\* line 154 in the peer, lines 309-310; the peer's run ends
PeerWriteIndex ==
    /\ peer.pc = "index_open"
    /\ index_file' = File(json_format_dict(PeerBuilt.index))
    /\ paired' = TRUE
    /\ peer' = NoPeer
    /\ UNCHANGED <<config, cache_file, cache_mtime, now, run>>

NextConc ==
    \/ \E host \in HostArgs, refresh \in BOOLEAN : Invoke(host, refresh)
    \/ CacheCheck
    \/ /\ peer.pc = "off"
       /\ \E nodes \in NodeLists, io \in WriteOutcomes :
            do_api_calls_update_cache(nodes, io)
    \/ get_nodes_fails
    \/ PrintList
    \/ HostLookup
    \/ HostRetry
    \/ \E node \in LiveNodes : HostHit(node)
    \/ get_node_fails
    \/ \E nodes \in NodeLists : PeerGetNodes(nodes)
    \/ PeerOpenCache
    \/ PeerWriteCache
    \/ PeerOpenIndex
    \/ PeerWriteIndex

SpecConc == Init /\ [][NextConc]_vars

----------------------------------------------------------------------------
(* The builder alone: get_nodes folded over node lists on one object *)

InitBuild ==
    /\ use_public_ip \in BOOLEAN
    /\ use_private_ip \in BOOLEAN
    /\ cache_file = NoFile
    /\ cache_mtime = 0
    /\ index_file = NoFile
    /\ now = 0
    /\ pc = "build"
    /\ args = [host |-> None, refresh_cache |-> TRUE]
    /\ inventory = _empty_inventory
    /\ index = EmptyDict
    /\ node_labels = {}
    /\ output = EmptyDict
    /\ valid = FALSE
    /\ missed = FALSE
    /\ listCalls = 0
    /\ nodeCalls = 0
    /\ writes = 0
    /\ rebuilds = 0
    /\ lastList = << >>
    /\ firstList = << >>
    /\ firstInventory = _empty_inventory
    /\ firstIndex = EmptyDict
    /\ fetched = << >>
    /\ torn = FALSE
    /\ paired = TRUE
    /\ peer = NoPeer

\* lines 156-167: the list query returned nodes; a push that raises ends the
\* run with a traceback
BuildGetNodes(nodes) ==
    LET built == get_nodes(Self, nodes)
    IN /\ pc = "build"
       /\ rebuilds < MaxBuilds
       /\ listCalls' = listCalls + 1
       /\ inventory' = built.inventory
       /\ index' = built.index
       /\ node_labels' = built.node_labels
       /\ lastList' = nodes
       /\ rebuilds' = IF built.ok THEN rebuilds + 1 ELSE rebuilds
       /\ firstList' = IF built.ok /\ rebuilds = 0 THEN nodes ELSE firstList
       /\ firstInventory' = IF built.ok /\ rebuilds = 0
                            THEN built.inventory ELSE firstInventory
       /\ firstIndex' = IF built.ok /\ rebuilds = 0
                        THEN built.index ELSE firstIndex
       /\ pc' = IF built.ok THEN "build" ELSE "crashed"
       /\ UNCHANGED <<config, peer, observed, files, now, args, output, valid,
                      missed, nodeCalls, writes>>

NextBuild == \E nodes \in BuildLists : BuildGetNodes(nodes)

SpecBuild == InitBuild /\ [][NextBuild]_vars

----------------------------------------------------------------------------
(* Vocabulary of the properties *)

Hostvars(inv) == inv["_meta"].hostvars

Groups(inv) == DOMAIN inv \ {"_meta"}

Members(inv, group) == {inv[group][i] : i \in 1..Len(inv[group])}

AllLen(inv) == IF "all" \in DOMAIN inv THEN Len(inv["all"]) ELSE 0

ListNodes(nodes) == {nodes[i] : i \in 1..Len(nodes)}

\* a rebuild of this run has completed and nothing has failed since
Rebuilt == rebuilds >= 1 /\ pc \notin {"aborted", "exited", "crashed"}

\* the state in which is_cache_valid has just answered
AtCheck == pc \in {"rebuild", "serve"} /\ rebuilds = 0 /\ ~args.refresh_cache

----------------------------------------------------------------------------
(* Properties *)

\* C1: after a completed rebuild every key of the Index, in memory and in the
\* index file, is a key of hostvars of the Inventory, in memory and in the
\* inventory file; also for the rebuild get_host_info runs on a lookup miss
\* after the Index was loaded from the cache.
IndexWithinHostvars ==
    Rebuilt =>
        /\ DOMAIN index \subseteq DOMAIN Hostvars(inventory)
        /\ DOMAIN index_file.text \subseteq DOMAIN Hostvars(cache_file.text)

\* C2: after get_nodes has folded a node list, under every IP policy, every
\* member of every group of the Inventory (every key but _meta, "all"
\* included) is a key of hostvars.
NoDanglingMembers ==
    pc = "build" =>
        \A group \in Groups(inventory) :
            Members(inventory, group) \subseteq DOMAIN Hostvars(inventory)

NoDanglingMembersWitness ==
    /\ pc = "build"
    /\ rebuilds = 2
    /\ "master" \in DOMAIN inventory
    /\ None \in Members(inventory, "master")
    /\ Len(inventory["all"]) >= 3

\* C3: after the build of a node list, every node of the list is a member of
\* the group named by the value of each label it carries, wherever it stands
\* in the list.
LabelGrouping ==
    (pc = "build" /\ rebuilds = 1) =>
        \A node \in ListNodes(lastList) :
            \A label \in DOMAIN node.metadata.labels :
                LET group == node.metadata.labels[label]
                IN group # "_meta" =>
                    /\ group \in DOMAIN inventory
                    /\ Dest(node) \in Members(inventory, group)

\* C4: a node is pushed into a group only on account of a label it carries:
\* every member of a group other than "all" is the identifier of a node that
\* has a label with the group's name as value, and no group has the empty
\* name.
NoGroupWithoutLabel ==
    (pc = "build" /\ rebuilds = 1) =>
        /\ "" \notin DOMAIN inventory
        /\ \A group \in Groups(inventory) \ {"all"} :
            \A member \in Members(inventory, group) :
                \E node \in ListNodes(lastList) :
                    /\ Dest(node) = member
                    /\ \E label \in DOMAIN node.metadata.labels :
                            node.metadata.labels[label] = group

\* C5: after any rebuild the group "all", in memory and in the inventory
\* file, has as many entries as the node list of that rebuild has nodes.
AllCountsNodes ==
    Rebuilt =>
        /\ AllLen(inventory) = Len(lastList)
        /\ AllLen(cache_file.text) = Len(lastList)

\* C6: every rebuild leaves an Inventory and an Index that are a function of
\* the node list of that rebuild alone, and the two files hold exactly them:
\* they equal what get_nodes makes of that list on a new object.
WholesaleRebuild ==
    Rebuilt =>
        LET fresh == get_nodes(FreshSelf, lastList)
        IN /\ inventory = fresh.inventory
           /\ index = fresh.index
           /\ cache_file.text = json_format_inventory(fresh.inventory)
           /\ index_file.text = json_format_dict(fresh.index)

\* C7: when get_nodes has run twice on the same node list under the same IP
\* policy, the Inventory and the Index after the second run are those after
\* the first, members, multiplicity and order included.
BuildIdempotent ==
    (Rebuilt /\ rebuilds = 2 /\ lastList = firstList) =>
        /\ inventory = firstInventory
        /\ index = firstIndex

\* C8: a --host run whose lookup misses forces exactly one rebuild and looks
\* up again; when the host is still absent it prints {} and ends normally,
\* with no call of the single-node query.
HostMissSoftEmpty ==
    /\ (pc = "hit" /\ missed) => args.host \in DOMAIN index
    /\ (pc = "done" /\ args.host # None /\ missed) =>
        /\ listCalls = IF args.refresh_cache \/ ~valid THEN 2 ELSE 1
        /\ args.host \notin DOMAIN index =>
            (output = EmptyDict /\ nodeCalls = 0)

HostMissSoftEmptyWitness ==
    /\ pc = "done"
    /\ args.host = "h2"
    /\ missed
    /\ ~args.refresh_cache
    /\ valid
    /\ listCalls = 1
    /\ Len(lastList) = 2
    /\ output = EmptyDict

\* C9, as claimed: is_cache_valid is true exactly when the inventory file
\* exists, its age is at most cache_max_age and the index file exists.
FreshInclusive ==
    AtCheck =>
        (valid <=> /\ cache_file.exists
                   /\ now - cache_mtime <= cache_max_age
                   /\ index_file.exists)

\* C9, amended: is_cache_valid is true exactly when the inventory file
\* exists, its age is less than cache_max_age and the index file exists.
FreshStrict ==
    AtCheck =>
        (valid <=> /\ cache_file.exists
                   /\ now - cache_mtime < cache_max_age
                   /\ index_file.exists)

FreshStrictWitness ==
    /\ AtCheck
    /\ cache_file.exists
    /\ index_file.exists
    /\ now - cache_mtime = cache_max_age
    /\ ~valid

\* C10: a --list run without --refresh-cache on a fresh cache calls no list
\* query, writes no cache file and prints the text of the inventory file.
CacheHitPassThrough ==
    (pc = "done" /\ args.host = None /\ ~args.refresh_cache /\ valid) =>
        /\ listCalls = 0
        /\ writes = 0
        /\ output = cache_file.text

CacheHitPassThroughWitness ==
    /\ pc = "done"
    /\ args.host = None
    /\ ~args.refresh_cache
    /\ valid
    /\ "all" \in DOMAIN output
    /\ Len(output["all"]) = 2

\* C11: a run with --refresh-cache or a cache that is not fresh produces no
\* output before it has queried the node list, built and written both cache
\* files; a --list run then prints the serialization of the Inventory built
\* from that node list alone.
RebuildBeforeOutput ==
    (pc \notin {"idle", "cache"} /\ (args.refresh_cache \/ ~valid)) =>
        /\ rebuilds = 0 =>
            (pc \in {"rebuild", "aborted", "exited", "crashed"}
                /\ output = EmptyDict)
        /\ pc = "done" =>
            (listCalls >= 1 /\ rebuilds >= 1 /\ writes = 2 * rebuilds)
        /\ (pc = "done" /\ args.host = None) =>
            /\ listCalls = 1
            /\ output = json_format_inventory(
                            get_nodes(FreshSelf, lastList).inventory)
            /\ output = cache_file.text

RebuildBeforeOutputWitness ==
    /\ pc = "done"
    /\ args.host = None
    /\ ~args.refresh_cache
    /\ ~valid
    /\ Len(lastList) = 2
    /\ cache_file.text = json_format_inventory(inventory)
    /\ output = cache_file.text


\* C12: the step in which the list query fails, or in which the fold of its
\* payload raises, ends the run and changes neither cache file; a run that
\* ended that way has printed nothing.
CollaboratorFailureFatal ==
    /\ [](pc \in {"exited", "crashed"} => output = EmptyDict)
    /\ [][(pc' \in {"exited", "crashed"} /\ pc \notin {"exited", "crashed"})
            => /\ cache_file' = cache_file
               /\ cache_mtime' = cache_mtime
               /\ index_file' = index_file]_vars

CollaboratorFailureFatalWitness ==
    /\ pc = "exited"
    /\ rebuilds = 1
    /\ listCalls = 2
    /\ Len(firstList) = 2
    /\ cache_file.text = json_format_inventory(firstInventory)
    /\ index_file.text = json_format_dict(firstIndex)


\* C13: a run that reads a cache file while another run is writing it never
\* reads a file that is emptied or partly written.
AtomicSave == ~torn


\* C18: whenever is_cache_valid has answered true, the inventory file and the
\* index file the run goes on to read were written by one and the same
\* rebuild.
ArtifactsPaired == (AtCheck /\ valid) => paired


\* C14: a --host run whose host is in the Index calls the single-node query
\* exactly once, with the node name the Index holds for the host, and prints
\* the normalization of the record that call returned, not the hostvars the
\* list query produced.
HostHitLiveFetch ==
    (pc = "done" /\ args.host # None /\ args.host \in DOMAIN index) =>
        /\ nodeCalls = 1
        /\ Len(fetched) = 1
        /\ fetched[1].id = index[args.host]
        /\ get_node_name(fetched[1].node) = index[args.host]
        /\ output = json_format_dict(_get_host_info(fetched[1].node))

HostHitLiveFetchWitness ==
    /\ pc = "done"
    /\ args.host # None
    /\ args.host \in DOMAIN index
    /\ rebuilds = 1
    /\ fetched = <<[id |-> "node-a", node |-> NodeA2]>>
    /\ Hostvars(inventory)[args.host].labels = [role |-> "worker"]
    /\ output.labels = [role |-> "master"]


\* C15: in every host bundle ansible_ssh_host and ansible_host hold the same
\* value: public_ip under the public-IP policy, and private_ip otherwise and
\* whenever the node has no public address or the chosen value is empty.
SshRouting ==
    pc = "build" =>
        \A dest \in DOMAIN Hostvars(inventory) :
            LET bundle == Hostvars(inventory)[dest]
                expected ==
                    IF use_public_ip /\ bundle.public_ip \notin {None, ""}
                    THEN bundle.public_ip
                    ELSE bundle.private_ip
            IN /\ bundle.ansible_ssh_host = bundle.ansible_host
               /\ bundle.ansible_host = expected


LabelValues(node) ==
    {node.metadata.labels[label] : label \in DOMAIN node.metadata.labels}

\* C16: when nodes of one list resolve to the same Host Identifier the build
\* does not fail on that account (a build fails only on a label value
\* "_meta"), and afterwards the Index and hostvars hold, under each
\* identifier, the name and the bundle of the last node that resolved to it.
CollisionLaterWins ==
    /\ pc = "crashed" =>
        \E node \in ListNodes(lastList) : "_meta" \in LabelValues(node)
    /\ (pc = "build" /\ rebuilds >= 1) =>
        \A i \in 1..Len(lastList) :
            (\A j \in (i + 1)..Len(lastList) :
                    Dest(lastList[j]) # Dest(lastList[i]))
            => /\ index[Dest(lastList[i])] = get_node_name(lastList[i])
               /\ Hostvars(inventory)[Dest(lastList[i])]
                    = _get_host_info(lastList[i])

CollisionLaterWinsWitness ==
    /\ pc = "build"
    /\ rebuilds = 1
    /\ Len(lastList) = 2
    /\ Dest(lastList[1]) = "1.2.3.4"
    /\ Dest(lastList[2]) = "1.2.3.4"
    /\ index["1.2.3.4"] = get_node_name(lastList[2])
    /\ Len(inventory["all"]) = 2
    /\ Cardinality(DOMAIN Hostvars(inventory)) = 1

\* the address of the entry of least position among those of a type
FirstOfType(addresses, type) ==
    LET matches == {i \in 1..Len(addresses) : addresses[i].type = type}
    IN IF matches = {} THEN None
       ELSE addresses[CHOOSE i \in matches :
                        \A j \in matches : i <= j].address

ExampleAddresses ==
    <<Addr("InternalIP", "10.0.0.1"), Addr("ExternalIP", "1.2.3.4"),
      Addr("ExternalIP", "1.2.3.5")>>

ReservedKeysSafe ==
    /\ pc # "crashed"
    /\ DOMAIN inventory["_meta"] = {"hostvars"}


\* C19: every run ends, printing or with a fatal error; it calls the list
\* query at most twice, and twice only for a lookup miss after a rebuild for
\* a stale or refreshed cache, and the single-node query at most once; a
\* --list run calls the list query at most once and the single-node query
\* never.
BoundedWork ==
    /\ [](/\ listCalls <= 2
          /\ nodeCalls <= 1
          /\ listCalls = 2 => (missed /\ (args.refresh_cache \/ ~valid))
          /\ args.host = None => (listCalls <= 1 /\ nodeCalls = 0))
    /\ [](pc = "cache" => <>(pc \in {"done", "aborted", "exited", "crashed"}))

BoundedWorkWitness ==
    /\ pc = "done"
    /\ args.host # None
    /\ listCalls = 2
    /\ nodeCalls = 1
    /\ writes = 4

====
